---- MODULE Spec2Model ----
(***************************************************************************)
(* A model of trollcast/newserver.py: the Holder (the locked two-level     *)
(* map with its `have` announcements), the RequestManager's reply loop,    *)
(* the HRPT frame reader, the FileWatcher that tails a growing file, the   *)
(* MirrorWatcher with its lazy remote references, the Cleaner, and the     *)
(* start and stop of the components by serve.                              *)
(*                                                                         *)
(* Each subsystem has a specification of its own (SpecHolder, SpecReq,     *)
(* SpecHRPT, SpecWatch, SpecMirror, SpecClean, SpecTimecode, SpecServe,    *)
(* SpecStop, SpecTwo); the variables of the other subsystems stay at their *)
(* initial values in it.                                                   *)
(***************************************************************************)
EXTENDS Integers, Sequences, FiniteSets, TLC

VARIABLES
    data,          \* Holder._data: satellite -> (timestamp -> <<elevation, payload>>)
    holderLock,    \* Holder._lock: the thread holding it, or Free
    pubSent,       \* the `have` messages handed to Publisher.send so far
    pc,            \* per client thread: its position in the Holder call it runs
    arg,           \* per client thread: the arguments of that call
    ret,           \* per client thread: what its last call returned or raised
    undisturbed,   \* history: no other add/delete of the key overlapped this add
    expect,        \* history: the value a running get is bound to return
    quiet,         \* history: per key, the value of the last add that returned alone
    lastAdded,     \* history: per key, the arguments of the last add that wrote it
    removed,       \* history: per key, a delete removed it after its last insert
    rmPc,          \* RequestManager.run: "poll", "send" (in the finally clause) or "dead"
    inbox,         \* the raw requests queued on the reply socket
    rmMsg,         \* the request run() received last, as decoded
    rmReply,       \* the reply run() computed for it
    rmExc,         \* the exception its handling raised, or None
    nRecv,         \* history: how many requests run() has received
    rmOut,         \* the reply run() put on the socket last
    nSent,         \* history: how many replies run() has sent
    buf,           \* the buffer HRPT.read is called with
    readOut,       \* what that call returned or raised
    file,          \* the bytes of the tailed file: complete frames and a partial one
    events,        \* the modify events the observer has still to dispatch
    readers,       \* FileWatcher._readers[pathname]: whether set, and the position
    addLog,        \* history: the file frame behind each Holder.add of the watcher
    peerData,      \* the Holder._data of the mirrored peer
    peerPub,       \* the `have` messages of the peer the MirrorWatcher has still to receive
    mgData,        \* _MirrorGetter._data of the lazy reference: None or the bytes
    mgLock,        \* MirrorWatcher._lock, shared by its lazy references
    mgWire,        \* the request socket: idle, a request sent, or the reply to it
    mgPc,          \* per thread: its position in answering a scanline request
    mgLeft,        \* per thread: the str(message) calls send() has still to make
    mgRep,         \* per thread: the reply its get_data received from the peer
    mgRet,         \* per thread: what its last get_data returned
    mgOut,         \* per thread: the reply it sent to its client
    mgSent,        \* history: the requests sent to the peer for the lazy reference
    clPc,          \* Cleaner: "wait", "sats", "keys", "delete" or "ended"
    clSats,        \* clean(): the satellites it has still to go through
    clSat,         \* clean(): the satellite it is at
    clKeys,        \* clean(): the sorted keys of that satellite it has still to look at
    clNow,         \* datetime.utcnow()
    clExc,         \* the exception that ended the Cleaner thread, or None
    clRemoved,     \* history: the entries the Cleaner has deleted
    adPc,          \* the thread that adds: "idle" or "locked" (inside Holder.add)
    adArg,         \* the key and value of the add it is in
    adCount,       \* history: the adds it has started
    tcWords,       \* the four timecode words HRPT.timecode is applied to
    tcNow,         \* datetime.utcnow() when HRPT.read runs on them
    tcOut,         \* the timedelta timecode returned and what read returned
    servePc,       \* serve: the statement it is at
    finallyAt,     \* serve: the stop() of the finally clause it is at
    locals,        \* serve: per local variable, "unbound", "None" or "object"
    started,       \* history: the parts constructed and started, in order
    stopped,       \* history: the parts whose stop() serve called and saw return
    serveExc,      \* the exception that left the finally clause of serve, or None
    loopFlag,      \* per thread: self._loop
    eventSet,      \* Heart, Cleaner: self._event is set
    sockOpen,      \* per socket owner: its socket is open
    taskPc,        \* per thread: "new", "test", "work", "wait", "blocked" or "ended"
    taskExc,       \* per thread: the exception that ended it, or None
    hbAfterStop,   \* history: Heart called Publisher.send after Heart.stop() returned
    hbAfterClose,  \* history: Heart called Publisher.send on the closed socket
    stopCalls,     \* history: per part, the calls of its stop()
    stopExc,       \* per part: what its last stop() raised, or None
    twData,        \* two servers: per server, the map of its Holder
    twSub,         \* per server: the messages on the way to its MirrorWatcher
    twHaves,       \* history: per server, the `have` messages it published
    twBeats,       \* history: per server, the heartbeats it published
    twIngest       \* history: the server, key and value of the local ingest

holderVars == <<data, holderLock, pubSent>>
threadVars == <<pc, arg, ret>>
ghostVars == <<undisturbed, expect, quiet, lastAdded, removed>>
rmVars == <<rmPc, inbox, rmMsg, rmReply, rmExc, nRecv, rmOut, nSent>>

hrptVars == <<buf, readOut>>
fwVars == <<file, events, readers, addLog>>
mirrorVars == <<peerData, peerPub, mgData, mgLock, mgWire, mgPc, mgLeft, mgRep,
                mgRet, mgOut, mgSent>>

cleanVars == <<clPc, clSats, clSat, clKeys, clNow, clExc, clRemoved, adPc,
               adArg, adCount>>

tcVars == <<tcWords, tcNow, tcOut>>
serveVars == <<servePc, finallyAt, locals, started, stopped, serveExc, loopFlag,
               eventSet, sockOpen, taskPc, taskExc, hbAfterStop, hbAfterClose,
               stopCalls, stopExc>>
twVars == <<twData, twSub, twHaves, twBeats, twIngest>>

\* what the threads that call the Holder leave alone
outsideHolder == <<rmVars, hrptVars, fwVars, mirrorVars, cleanVars, tcVars,
                   serveVars, twVars>>
\* what the RequestManager and its clients leave alone
outsideReq == <<threadVars, ghostVars, hrptVars, fwVars, mirrorVars, cleanVars,
                tcVars, serveVars, twVars>>
\* what a call of HRPT.read leaves alone
outsideHRPT == <<holderVars, threadVars, ghostVars, rmVars, fwVars, mirrorVars,
                 cleanVars, tcVars, serveVars, twVars>>
\* what the FileWatcher and the writer of its file leave alone
outsideWatch == <<holderLock, threadVars, ghostVars, rmVars, hrptVars,
                  mirrorVars, cleanVars, tcVars, serveVars, twVars>>
\* what the MirrorWatcher, its lazy reference and the peer leave alone
outsideMirror == <<holderLock, threadVars, ghostVars, rmVars, hrptVars, fwVars,
                   cleanVars, tcVars, serveVars, twVars>>
\* what the Cleaner and the thread that adds leave alone
outsideClean == <<threadVars, ghostVars, rmVars, hrptVars, fwVars, mirrorVars,
                  tcVars, serveVars, twVars>>
\* what the decoding of a timecode leaves alone
outsideTimecode == <<holderVars, threadVars, ghostVars, rmVars, hrptVars,
                     fwVars, mirrorVars, cleanVars, serveVars, twVars>>
\* what serve and the threads it starts leave alone
outsideServe == <<holderVars, threadVars, ghostVars, rmVars, hrptVars, fwVars,
                  mirrorVars, cleanVars, tcVars, twVars>>
\* what the two servers that mirror each other leave alone
outsideTwo == <<holderVars, threadVars, ghostVars, rmVars, hrptVars, fwVars,
                mirrorVars, cleanVars, tcVars, serveVars>>

None == "None"
\* no value: the empty tuple, comparable with the tuples values are
NoVal == <<>>
\* Holder._lock when no thread holds it
Free == 0
KeyError == "KeyError"
TypeError == "TypeError"
ValueError == "ValueError"

\* ---------------------------------------------------------------- bounds

\* the threads that call the Holder concurrently
NumThreads == 2
\* the requests clients send to the RequestManager in one run
MaxRequests == 2
\* the complete frames of a buffer handed to HRPT.read
MaxFrames == 3

Threads == 1..NumThreads

\* The arguments the threads call the Holder with. Timestamps are
\* <<day of the year, millisecond of the day>> pairs, values are
\* <<elevation, payload>> pairs.
Sats == {"NOAA 15", "NOAA 16"}
Times == {<<180, 0>>}
Keys == Sats \X Times
Vals == {<<10, "bytesA">>, <<10, "bytesB">>}

\* The publisher address the Holder is stamped with (serve: pubaddress).
Origin == "self:9333"

\* ---------------------------------------------------------------- Holder

EmptyMap == [x \in {} |-> None]

\* self._data.setdefault(sat, {})[key] = elevation, data
HolderSetKeep(d, sat, key, val) ==
    LET inner == IF sat \in DOMAIN d THEN d[sat] ELSE EmptyMap
        inner2 == [k \in DOMAIN inner \cup {key} |->
                      IF k \in DOMAIN inner THEN inner[k] ELSE val]
    IN  [s \in DOMAIN d \cup {sat} |-> IF s = sat THEN inner2 ELSE d[s]]

HolderSet(d, sat, key, val) ==
    LET inner == IF sat \in DOMAIN d THEN d[sat] ELSE EmptyMap
        inner2 == [k \in DOMAIN inner \cup {key} |->
                      IF k = key THEN val ELSE inner[k]]
    IN  [s \in DOMAIN d \cup {sat} |-> IF s = sat THEN inner2 ELSE d[s]]

\* self._data[sat][key]: the stored tuple, or the KeyError raised
HolderGet(d, sat, key) ==
    IF sat \notin DOMAIN d THEN [exc |-> KeyError, val |-> NoVal]
    ELSE IF key \notin DOMAIN d[sat] THEN [exc |-> KeyError, val |-> NoVal]
    ELSE [exc |-> None, val |-> d[sat][key]]

\* Holder.get_data: self.get(sat, key)[1]
HolderGetData(d, sat, key) ==
    LET r == HolderGet(d, sat, key)
    IN  IF r.exc # None THEN [exc |-> r.exc, val |-> None]
        ELSE [exc |-> None, val |-> r.val[2]]

\* del self._data[sat][key]: the map afterwards and the exception raised
HolderDel(d, sat, key) ==
    IF sat \notin DOMAIN d THEN [exc |-> KeyError, data |-> d]
    ELSE IF key \notin DOMAIN d[sat] THEN [exc |-> KeyError, data |-> d]
    ELSE [exc |-> None,
          data |-> [s \in DOMAIN d |->
                      IF s = sat
                      THEN [k \in DOMAIN d[s] \ {key} |-> d[s][k]]
                      ELSE d[s]]]

\* Holder.have: the message handed to the Publisher
HaveMsg(sat, key, elevation) ==
    [type |-> "have", satellite |-> sat, timecode |-> key,
     elevation |-> elevation, origin |-> Origin]

Present(d, k) == HolderGet(d, k[1], k[2]).exc = None

\* ------------------------------------------- threads calling the Holder

\* what a call that has not returned yet has returned
NoRet == [exc |-> None, val |-> NoVal]
NoArg == [op |-> "none", sat |-> None, key |-> NoVal, val |-> NoVal]

\* thread u is inside an add or a delete of key k
Writing(u, k) ==
    /\ pc[u] \notin {"idle", "del_done"}
    /\ arg[u].op \in {"add", "delete"}
    /\ <<arg[u].sat, arg[u].key>> = k

\* history kept when thread t calls add or delete on key k
Disturb(t, k) ==
    /\ quiet' = [quiet EXCEPT ![k] = NoVal]
    /\ undisturbed' = [u \in Threads |->
           IF u = t THEN ~(\E w \in Threads \ {t} : Writing(w, k))
           ELSE IF Writing(u, k) THEN FALSE ELSE undisturbed[u]]
    /\ expect' = [u \in Threads |->
           IF u # t /\ pc[u] = "get_in" /\ arg[u].op = "get"
                    /\ <<arg[u].sat, arg[u].key>> = k
           THEN NoVal ELSE expect[u]]

\* A thread calls Holder.add(sat, key, elevation, data) and enters its with
\* block. (A thread waiting for the lock has done nothing yet that another
\* thread can see, so the call and the acquisition are one step.)
AddCallHaveFirst(t, k, v) ==
    /\ pc[t] = "idle"
    /\ holderLock = Free
    /\ holderLock' = t
    /\ pc' = [pc EXCEPT ![t] = "add_in"]
    /\ arg' = [arg EXCEPT ![t] = [op |-> "add", sat |-> k[1], key |-> k[2], val |-> v]]
    /\ pubSent' = pubSent \cup {HaveMsg(k[1], k[2], v[1])}
    /\ Disturb(t, k)
    /\ UNCHANGED <<data, ret, lastAdded, removed>>
    /\ UNCHANGED outsideHolder

AddCall(t, k, v) ==
    /\ pc[t] = "idle"
    /\ holderLock = Free
    /\ holderLock' = t
    /\ pc' = [pc EXCEPT ![t] = "add_in"]
    /\ arg' = [arg EXCEPT ![t] = [op |-> "add", sat |-> k[1], key |-> k[2], val |-> v]]
    /\ Disturb(t, k)
    /\ UNCHANGED <<data, pubSent, ret, lastAdded, removed>>
    /\ UNCHANGED outsideHolder

\* the body of add's with block, and leaving the block
AddWrite(t) ==
    /\ pc[t] = "add_in"
    /\ holderLock = t
    /\ data' = HolderSet(data, arg[t].sat, arg[t].key, arg[t].val)
    /\ holderLock' = Free
    /\ pc' = [pc EXCEPT ![t] = "add_have"]
    /\ lastAdded' = [lastAdded EXCEPT ![<<arg[t].sat, arg[t].key>>] = arg[t].val]
    /\ removed' = [removed EXCEPT ![<<arg[t].sat, arg[t].key>>] = FALSE]
    /\ UNCHANGED <<pubSent, arg, ret, undisturbed, expect, quiet>>
    /\ UNCHANGED outsideHolder

\* self.have(sat, key, elevation), after which add returns
AddHave(t) ==
    /\ pc[t] = "add_have"
    /\ pubSent' = pubSent \cup {HaveMsg(arg[t].sat, arg[t].key, arg[t].val[1])}
    /\ pc' = [pc EXCEPT ![t] = "idle"]
    /\ arg' = [arg EXCEPT ![t] = NoArg]
    /\ undisturbed' = [undisturbed EXCEPT ![t] = FALSE]
    /\ quiet' = IF undisturbed[t]
                THEN [quiet EXCEPT ![<<arg[t].sat, arg[t].key>>] = arg[t].val]
                ELSE quiet
    /\ UNCHANGED <<data, holderLock, ret, expect, lastAdded, removed>>
    /\ UNCHANGED outsideHolder

\* a thread calls Holder.get(sat, key) and enters its with block
GetCall(t, k) ==
    /\ pc[t] = "idle"
    /\ holderLock = Free
    /\ holderLock' = t
    /\ pc' = [pc EXCEPT ![t] = "get_in"]
    /\ arg' = [arg EXCEPT ![t] = [op |-> "get", sat |-> k[1], key |-> k[2], val |-> NoVal]]
    /\ expect' = [expect EXCEPT ![t] = quiet[k]]
    /\ UNCHANGED <<data, pubSent, ret, undisturbed, quiet, lastAdded, removed>>
    /\ UNCHANGED outsideHolder

\* return self._data[sat][key], leaving the with block
GetRead(t) ==
    /\ pc[t] = "get_in"
    /\ holderLock = t
    /\ ret' = [ret EXCEPT ![t] = HolderGet(data, arg[t].sat, arg[t].key)]
    /\ holderLock' = Free
    /\ pc' = [pc EXCEPT ![t] = "get_done"]
    /\ UNCHANGED <<data, pubSent, arg, ghostVars>>
    /\ UNCHANGED outsideHolder

\* a thread calls Holder.delete(sat, key) and enters its with block
DelCall(t, k) ==
    /\ pc[t] = "idle"
    /\ holderLock = Free
    /\ holderLock' = t
    /\ pc' = [pc EXCEPT ![t] = "del_in"]
    /\ arg' = [arg EXCEPT ![t] = [op |-> "delete", sat |-> k[1], key |-> k[2], val |-> NoVal]]
    /\ Disturb(t, k)
    /\ UNCHANGED <<data, pubSent, ret, lastAdded, removed>>
    /\ UNCHANGED outsideHolder

\* del self._data[sat][key], leaving the with block (also when it raises)
DelRemove(t) ==
    /\ pc[t] = "del_in"
    /\ holderLock = t
    /\ LET r == HolderDel(data, arg[t].sat, arg[t].key)
       IN  /\ data' = r.data
           /\ ret' = [ret EXCEPT ![t] = [exc |-> r.exc, val |-> NoVal]]
           /\ removed' = IF r.exc = None
                         THEN [removed EXCEPT ![<<arg[t].sat, arg[t].key>>] = TRUE]
                         ELSE removed
    /\ holderLock' = Free
    /\ pc' = [pc EXCEPT ![t] = "del_done"]
    /\ UNCHANGED <<pubSent, arg, undisturbed, expect, quiet, lastAdded>>
    /\ UNCHANGED outsideHolder

\* get or delete is over: its caller has the value, or the exception
Return(t) ==
    /\ pc[t] \in {"get_done", "del_done"}
    /\ pc' = [pc EXCEPT ![t] = "idle"]
    /\ arg' = [arg EXCEPT ![t] = NoArg]
    /\ ret' = [ret EXCEPT ![t] = NoRet]
    /\ expect' = [expect EXCEPT ![t] = NoVal]
    /\ undisturbed' = [undisturbed EXCEPT ![t] = FALSE]
    /\ UNCHANGED <<holderVars, quiet, lastAdded, removed>>
    /\ UNCHANGED outsideHolder

InitHolder ==
    /\ data = EmptyMap
    /\ holderLock = Free
    /\ pubSent = {}

InitThreads ==
    /\ pc = [t \in Threads |-> "idle"]
    /\ arg = [t \in Threads |-> NoArg]
    /\ ret = [t \in Threads |-> NoRet]
    /\ undisturbed = [t \in Threads |-> FALSE]
    /\ expect = [t \in Threads |-> NoVal]
    /\ quiet = [k \in Keys |-> NoVal]
    /\ lastAdded = [k \in Keys |-> NoVal]
    /\ removed = [k \in Keys |-> FALSE]

\* ------------------------------------------------------ RequestManager

\* the configured station name (serve: cfg.get("local_reception", "station"))
Station == "norrkoping"

MessageError == "MessageError"

NoMsg == [type |-> None, hasData |-> FALSE, data |-> EmptyMap]
NoReply == [type |-> None, data |-> None]

\* datetime.isoformat(): the text a timestamp travels as
Isoformat(t) == <<"iso", t[1], t[2]>>

\* posttroll.strp_isoformat: the timestamp a text stands for, or ValueError
strp_isoformat(x) ==
    IF Len(x) = 3 /\ x[1] = "iso"
    THEN [exc |-> None, val |-> <<x[2], x[3]>>]
    ELSE [exc |-> ValueError, val |-> NoVal]

\* message.data[field]: TypeError when data is None, KeyError without the field
Lookup(m, field) ==
    IF ~m.hasData THEN [exc |-> TypeError, val |-> None]
    ELSE IF field \notin DOMAIN m.data THEN [exc |-> KeyError, val |-> None]
    ELSE [exc |-> None, val |-> m.data[field]]

Reply(type, payload) == [type |-> type, data |-> payload]

\* reply = Message(subject, "error"), the value run() starts from
ErrorReply == Reply("error", None)

\* RequestManager.pong
pong == Reply("pong", Station)

\* RequestManager.notice
notice(m) == Reply("ack", None)

\* RequestManager.unknown
unknown(m) == Reply("unknown", None)

Raised(e) == [reply |-> ErrorReply, exc |-> e]
Returned(r) == [reply |-> r, exc |-> None]

\* RequestManager.scanline: the reply, or the exception that leaves it
scanlineNoMissing(m, d) ==
    LET sat == Lookup(m, "satellite")
        utc == Lookup(m, "utctime")
    IN  IF sat.exc # None THEN Raised(sat.exc)
        ELSE IF utc.exc # None THEN Raised(utc.exc)
        ELSE LET key == strp_isoformat(utc.val)
             IN  IF key.exc # None THEN Raised(key.exc)
                 ELSE Returned(Reply("scanline",
                                     HolderGetData(d, sat.val, key.val).val))

scanline(m, d) ==
    LET sat == Lookup(m, "satellite")
        utc == Lookup(m, "utctime")
    IN  IF sat.exc # None THEN Raised(sat.exc)
        ELSE IF utc.exc # None THEN Raised(utc.exc)
        ELSE LET key == strp_isoformat(utc.val)
             IN  IF key.exc # None THEN Raised(key.exc)
                 ELSE LET r == HolderGetData(d, sat.val, key.val)
                      IN  IF r.exc = KeyError
                          THEN Returned(Reply("missing", None))
                          ELSE Returned(Reply("scanline", r.val))

\* The try block of run(): the reply it leaves in `reply`, and the exception
\* that leaves the block (the finally clause sends the reply either way).
Dispatch(m, d) ==
    IF m.type = "ping" THEN Returned(pong)
    ELSE IF m.type = "request"
    THEN LET ty == Lookup(m, "type")
         IN  IF ty.exc # None THEN Raised(ty.exc)
             ELSE IF ty.val = "scanline" THEN scanline(m, d)
             ELSE Returned(unknown(m))
    ELSE IF m.type = "notice"
    THEN LET ty == Lookup(m, "type")
         IN  IF ty.exc # None THEN Raised(ty.exc)
             ELSE IF ty.val = "scanline" THEN Returned(notice(m))
             ELSE Returned(unknown(m))
    ELSE Returned(unknown(m))

Msg(type, d) == [ok |-> TRUE, msg |-> [type |-> type, hasData |-> TRUE, data |-> d]]
BareMsg(type) == [ok |-> TRUE, msg |-> [type |-> type, hasData |-> FALSE, data |-> EmptyMap]]

\* a timestamp no scanline of the model has
OtherTime == <<181, 500>>

\* The raw requests clients send: well-formed ones, requests whose handling
\* raises, and bytes that are no message at all.
Requests ==
    {BareMsg("ping"), BareMsg("foo"), BareMsg("request")}
    \cup {Msg("request", [type |-> "scanline", satellite |-> k[1],
                          utctime |-> Isoformat(k[2])]) :
             k \in Sats \X (Times \cup {OtherTime})}
    \cup {Msg("request", [type |-> "scanline", satellite |-> "NOAA 15",
                          utctime |-> <<"yesterday">>]),
          Msg("request", [type |-> "scanline"]),
          Msg("request", [satellite |-> "NOAA 15"]),
          Msg("request", [type |-> "listing"]),
          Msg("notice", [type |-> "scanline"]),
          Msg("notice", [satellite |-> "NOAA 15"]),
          [ok |-> FALSE, msg |-> NoMsg]}

\* a client sends a request to the reply socket
ClientSend(r) ==
    /\ nRecv + Len(inbox) < MaxRequests
    /\ inbox' = Append(inbox, r)
    /\ UNCHANGED <<rmPc, rmMsg, rmReply, rmExc, nRecv, rmOut, nSent>>
    /\ UNCHANGED <<holderVars, outsideReq>>

\* run(): the poll returns POLLIN, the request is received and decoded outside
\* the try block, and the try block computes the reply
RMRecv ==
    /\ rmPc = "poll"
    /\ inbox # <<>>
    /\ inbox' = Tail(inbox)
    /\ nRecv' = nRecv + 1
    /\ IF ~Head(inbox).ok
       THEN /\ rmPc' = "dead"
            /\ rmMsg' = NoMsg
            /\ rmReply' = NoReply
            /\ rmExc' = MessageError
       ELSE /\ rmPc' = "send"
            /\ rmMsg' = Head(inbox).msg
            /\ rmReply' = Dispatch(Head(inbox).msg, data).reply
            /\ rmExc' = Dispatch(Head(inbox).msg, data).exc
    /\ UNCHANGED <<rmOut, nSent>>
    /\ UNCHANGED <<holderVars, outsideReq>>

\* run(): the finally clause sends the reply; an exception of the try block
\* then leaves the with block and the while loop
RMSend ==
    /\ rmPc = "send"
    /\ rmOut' = rmReply
    /\ nSent' = nSent + 1
    /\ rmPc' = IF rmExc # None THEN "dead" ELSE "poll"
    /\ UNCHANGED <<inbox, rmMsg, rmReply, rmExc, nRecv>>
    /\ UNCHANGED <<holderVars, outsideReq>>

\* Holder.add as another thread (the FileWatcher) runs it: insert, then have
HolderAdd(k, v) ==
    /\ data' = HolderSet(data, k[1], k[2], v)
    /\ pubSent' = pubSent \cup {HaveMsg(k[1], k[2], v[1])}
    /\ UNCHANGED holderLock

\* Holder.delete as the Cleaner runs it, on a key it found in the map
HolderDelete(k) ==
    /\ Present(data, k)
    /\ data' = HolderDel(data, k[1], k[2]).data
    /\ UNCHANGED <<holderLock, pubSent>>

\* a scanline arrives while the RequestManager serves
ReqHolderAdd(k, v) ==
    /\ HolderAdd(k, v)
    /\ UNCHANGED <<rmVars, outsideReq>>

\* the Cleaner evicts a scanline while the RequestManager serves
ReqHolderDelete(k) ==
    /\ HolderDelete(k)
    /\ UNCHANGED <<rmVars, outsideReq>>

InitReq ==
    /\ rmPc = "poll"
    /\ inbox = <<>>
    /\ rmMsg = NoMsg
    /\ rmReply = NoReply
    /\ rmExc = None
    /\ nRecv = 0
    /\ rmOut = NoReply
    /\ nSent = 0

NextReq ==
    \/ \E r \in Requests : ClientSend(r)
    \/ RMRecv
    \/ RMSend
    \/ \E k \in Keys, v \in Vals : ReqHolderAdd(k, v)
    \/ \E k \in Keys : ReqHolderDelete(k)

\* ----------------------------------------------------------------- HRPT

\* HRPT.hrpt_sync: the 100 words of aux_sync
hrpt_sync ==
    << 994, 1011, 437, 701, 644, 277, 452, 467, 833, 224,
       694, 990, 220, 409, 1010, 403, 654, 105, 62, 867,
       75, 149, 320, 725, 668, 581, 866, 109, 166, 941,
       1022, 59, 989, 182, 461, 197, 751, 359, 704, 66,
       387, 238, 850, 746, 473, 573, 282, 6, 212, 169, 623,
       761, 979, 338, 249, 448, 331, 911, 853, 536, 323,
       703, 712, 370, 30, 900, 527, 977, 286, 158, 26, 796,
       705, 100, 432, 515, 633, 77, 65, 489, 186, 101, 406,
       560, 148, 358, 742, 113, 878, 453, 501, 882, 525,
       925, 377, 324, 589, 594, 496, 972 >>

\* HRPT.hrpt_sync_start: the 6 words of frame_sync
hrpt_sync_start == <<644, 367, 860, 413, 527, 149>>

\* HRPT.satellites
satellites == (7 :> "NOAA 15") @@ (3 :> "NOAA 16") @@ (13 :> "NOAA 18") @@ (15 :> "NOAA 19")

\* HRPT.line_size, in bytes
line_size == 11090 * 2

\* timedelta(milliseconds=...) carries whole days into its days
MsPerDay == 86400000

\* Days are counted from January 1 of the year before the current one, so
\* that datetime(year - 1, 1, 1) is day 0 and datetime(year, 1, 1) is day
\* DaysInPrevYear. An instant is <<day, millisecond of the day>>.
DaysInPrevYear == 365

\* datetime.utcnow() when read() runs: noon of day 201 of the current year
Now == <<DaysInPrevYear + 200, 43200000>>

\* a > b for two instants
Later(a, b) == a[1] > b[1] \/ (a[1] = b[1] /\ a[2] > b[2])

\* the mutant of timecode: the second `msecs *= 1024` is left out
timecodeOneShift(tc_array) ==
    LET day == tc_array[1]
        msecs == ((tc_array[2] % 128) * 1024 + (tc_array[3] % 1024))
                     + (tc_array[4] % 1024)
    IN  [days |-> (day \div 2) - 1, milliseconds |-> msecs]

\* HRPT.timecode: the timedelta of the four timecode words
timecode(tc_array) ==
    LET day == tc_array[1]
        msecs == (((tc_array[2] % 128) * 1024 + (tc_array[3] % 1024)) * 1024)
                     + (tc_array[4] % 1024)
    IN  [days |-> (day \div 2) - 1, milliseconds |-> msecs]

\* datetime(year, 1, 1) + days, with January 1 of that year on day `start`
PlusDelta(start, td) ==
    <<start + td.days + (td.milliseconds \div MsPerDay),
      td.milliseconds % MsPerDay>>

\* read(): utctime of a line, pushed back one year when it is in the future
UtcTime(line, now) ==
    LET days == timecode(line.timecode)
        utctime == PlusDelta(DaysInPrevYear, days)
    IN  IF Later(utctime, now) THEN PlusDelta(0, days) ELSE utctime

\* read(): np.all(aux_sync == hrpt_sync) and np.all(frame_sync == hrpt_sync_start)
SyncOk(line) ==
    /\ \A n \in 1..100 : line.aux_sync[n] = hrpt_sync[n]
    /\ \A n \in 1..6 : line.frame_sync[n] = hrpt_sync_start[n]

\* read(): (line["id"]["id"] >> 3) & 15
SatCode(line) == (line.id \div 8) % 16

\* len(data): a buffer is its complete frames and the bytes of a last,
\* incomplete one
BufLen(b) == Len(b.frames) * line_size + b.rem

\* data[lo:hi] for a frame-aligned slice of one line_size: that frame's bytes
Slice(b, lo, hi) == b.frames[(lo \div line_size) + 1]

\* The for loop of read() from line n on, with `i` and `elts` as they stand.
\* Each element is the tuple read() appends; `line` is history: the index
\* of the line the satellite and utctime were decoded from.
RECURSIVE ReadLines(_, _, _, _, _, _, _)
ReadLines(b, lines, n, i, elts, now, elevation) ==
    IF n > Len(lines) THEN [exc |-> None, elts |-> elts, consumed |-> line_size * i]
    ELSE LET line == lines[n]
             utctime == UtcTime(line, now)
         IN  IF ~SyncOk(line)
             THEN ReadLines(b, lines, n + 1, i, elts, now, elevation)
             ELSE IF SatCode(line) \notin DOMAIN satellites
             THEN [exc |-> KeyError, elts |-> <<>>, consumed |-> 0]
             ELSE ReadLines(b, lines, n + 1, i + 1,
                            Append(elts, [satellite |-> satellites[SatCode(line)],
                                          utctime |-> utctime,
                                          elevation |-> elevation,
                                          data |-> Slice(b, line_size * i,
                                                         line_size * (i + 1)),
                                          line |-> n]),
                            now, elevation)

\* HRPT.read(data): the elements and the consumed byte count it returns, or
\* the exception it raises. (elevation stands for random.uniform(0, 90).)
read(b, now, elevation) ==
    LET count == BufLen(b) \div line_size
        lines == SubSeq(b.frames, 1, count)
    IN  ReadLines(b, lines, 1, 0, <<>>, now, elevation)

\* --- the frames and buffers read() is tried on

ZeroSync == [n \in 1..6 |-> 0]
ZeroAux == [n \in 1..100 |-> 0]
BadAux == [n \in 1..100 |-> IF n = 100 THEN 0 ELSE hrpt_sync[n]]

Frame(fs, id, tc, aux, body) ==
    [frame_sync |-> fs, id |-> id, timecode |-> tc, aux_sync |-> aux, body |-> body]

\* valid frames: NOAA 15 (code 7) on day 180, NOAA 16 (code 3, spare low bits
\* set) on day 181, NOAA 19 (code 15) with a day still to come this year
ValidFrames ==
    {Frame(hrpt_sync_start, 56, <<360, 41, 204, 0>>, hrpt_sync, "image A"),
     Frame(hrpt_sync_start, 25, <<362, 0, 0, 5>>, hrpt_sync, "image B"),
     Frame(hrpt_sync_start, 120, <<600, 0, 1, 0>>, hrpt_sync, "image C")}

\* frames that fail the sync checks: 22180 zero bytes, a frame with a broken
\* aux_sync trailer
GarbageFrames ==
    {Frame(ZeroSync, 0, <<0, 0, 0, 0>>, ZeroAux, "zeros"),
     Frame(hrpt_sync_start, 56, <<360, 41, 204, 0>>, BadAux, "image D")}

\* a frame that passes the sync checks with satellite code 5, not in the table
UnknownSatFrames ==
    {Frame(hrpt_sync_start, 40, <<360, 0, 0, 0>>, hrpt_sync, "image E")}

Frames == ValidFrames \cup GarbageFrames \cup UnknownSatFrames

RECURSIVE SeqsUpTo(_, _)
SeqsUpTo(S, n) ==
    IF n = 0 THEN {<<>>}
    ELSE SeqsUpTo(S, n - 1)
         \cup {Append(q, x) : q \in {p \in SeqsUpTo(S, n - 1) : Len(p) = n - 1}, x \in S}

\* the bytes of an incomplete last frame
Remainders == {0, 10000}

Buffers == [frames : SeqsUpTo(Frames, MaxFrames), rem : Remainders]

NoBuf == [frames |-> <<>>, rem |-> 0]
NoRead == [exc |-> None, elts |-> <<>>, consumed |-> -1]
Elevations == {10, 45}

\* HRPT.read is called with the buffer
HRPTRead(elevation) ==
    /\ readOut = NoRead
    /\ readOut' = read(buf, Now, elevation)
    /\ UNCHANGED buf
    /\ UNCHANGED outsideHRPT

InitHRPT ==
    /\ buf = NoBuf
    /\ readOut = NoRead

NextHRPT ==
    \E e \in Elevations : HRPTRead(e)

\* ---------------------------------------------------------- FileWatcher

\* the frames a receiver writes to the tailed file
WatchFrames == ValidFrames \cup GarbageFrames

\* The body of _reader(pathname): the elements it returns, the entry of
\* _readers it leaves, the exception that leaves it, and (history) the number
\* of file frames before the data it parsed.
Reader(f, rd, now, elevation) ==
    IF rd.known
    THEN LET first == rd.position \div line_size
             tail == [frames |-> SubSeq(f.frames, first + 1, Len(f.frames)),
                      rem |-> f.rem]
             r == read(tail, now, elevation)
         IN  IF r.exc = KeyError
             THEN \* except KeyError: the rest of the file is empty, and
                  \* HRPT().read("") gives ([], 0)
                  [exc |-> None, elts |-> <<>>, base |-> first,
                   readers |-> [known |-> TRUE,
                                position |-> read(NoBuf, now, elevation).consumed]]
             ELSE [exc |-> None, elts |-> r.elts, base |-> first,
                   readers |-> [known |-> TRUE,
                                position |-> rd.position + r.consumed]]
    ELSE LET r == read(f, now, elevation)
         IN  IF r.exc # None
             THEN [exc |-> r.exc, elts |-> <<>>, base |-> 0, readers |-> rd]
             ELSE [exc |-> None, elts |-> r.elts, base |-> 0,
                   readers |-> [known |-> TRUE, position |-> r.consumed]]

\* the Holder map after Holder.add of each element, in order
RECURSIVE AddAll(_, _)
AddAll(d, elts) ==
    IF elts = <<>> THEN d
    ELSE AddAll(HolderSet(d, Head(elts).satellite, Head(elts).utctime,
                          <<Head(elts).elevation, Head(elts).data>>),
                Tail(elts))

\* the receiver appends a whole frame to the file
WriteFrame(f) ==
    /\ file.rem = 0
    /\ Len(file.frames) < MaxFrames
    /\ file' = [file EXCEPT !.frames = Append(@, f)]
    /\ events' = events + 1
    /\ UNCHANGED <<readers, addLog, data, pubSent>>
    /\ UNCHANGED outsideWatch

\* the receiver appends the first r bytes of a frame
WritePart(r) ==
    /\ file.rem = 0
    /\ Len(file.frames) < MaxFrames
    /\ file' = [file EXCEPT !.rem = r]
    /\ events' = events + 1
    /\ UNCHANGED <<readers, addLog, data, pubSent>>
    /\ UNCHANGED outsideWatch

\* the receiver appends the rest of the frame it had begun
WriteRest(f) ==
    /\ file.rem > 0
    /\ file' = [frames |-> Append(file.frames, f), rem |-> 0]
    /\ events' = events + 1
    /\ UNCHANGED <<readers, addLog, data, pubSent>>
    /\ UNCHANGED outsideWatch

\* on_modified(event) for the tailed file: _reader, then Holder.add of each
\* element it returned (each add inserts and publishes its `have`)
OnModified(elevation) ==
    /\ events > 0
    /\ events' = events - 1
    /\ LET out == Reader(file, readers, Now, elevation)
       IN  /\ readers' = out.readers
           /\ data' = AddAll(data, out.elts)
           /\ pubSent' = pubSent \cup
                  {HaveMsg(out.elts[n].satellite, out.elts[n].utctime,
                           out.elts[n].elevation) : n \in 1..Len(out.elts)}
           /\ addLog' = addLog \o [n \in 1..Len(out.elts) |->
                                      out.base + out.elts[n].line]
    /\ UNCHANGED file
    /\ UNCHANGED outsideWatch

InitWatch ==
    /\ file = NoBuf
    /\ events = 0
    /\ readers = [known |-> FALSE, position |-> 0]
    /\ addLog = <<>>

NextWatch ==
    \/ \E f \in WatchFrames : WriteFrame(f)
    \/ \E r \in Remainders \ {0} : WritePart(r)
    \/ \E f \in WatchFrames : WriteRest(f)
    \/ \E e \in Elevations : OnModified(e)

\* ------------------------------- MirrorWatcher and the lazy references

\* the scanline the peer ingests and the MirrorWatcher mirrors
MirrorKey == <<"NOAA 15", <<180, 0>>>>

\* the _MirrorGetter object the MirrorWatcher stores as the payload
LazyRef == "_MirrorGetter"

\* rep.data of the reply as Message.decode gives it: the payload of a
\* `scanline` reply, the empty string of a reply that carries no data
EmptyData == ""
RepData(rep) == IF rep.type = "scanline" THEN rep.data ELSE EmptyData

\* the request get_data() builds for its scanline
MirrorRequest ==
    [type |-> "request", hasData |-> TRUE,
     data |-> [type |-> "scanline", satellite |-> MirrorKey[1],
               utctime |-> Isoformat(MirrorKey[2])]]

WireIdle == [kind |-> "idle", msg |-> NoReply]

\* the peer ingests the scanline, once in a run: its Holder.add inserts it
\* and publishes the `have`
PeerAdd(v) ==
    /\ ~Present(peerData, MirrorKey)
    /\ peerPub = <<>>
    /\ data = EmptyMap
    /\ peerData' = HolderSet(peerData, MirrorKey[1], MirrorKey[2], v)
    /\ peerPub' = Append(peerPub, HaveMsg(MirrorKey[1], MirrorKey[2], v[1]))
    /\ UNCHANGED <<mgData, mgLock, mgWire, mgPc, mgLeft, mgRep, mgRet, mgOut, mgSent>>
    /\ UNCHANGED <<data, pubSent, outsideMirror>>

\* the Cleaner of the peer evicts the scanline
PeerEvict ==
    /\ Present(peerData, MirrorKey)
    /\ peerData' = HolderDel(peerData, MirrorKey[1], MirrorKey[2]).data
    /\ UNCHANGED <<peerPub, mgData, mgLock, mgWire, mgPc, mgLeft, mgRep, mgRet,
                   mgOut, mgSent>>
    /\ UNCHANGED <<data, pubSent, outsideMirror>>

\* MirrorWatcher.run: a `have` of the peer arrives; a new _MirrorGetter is
\* added to the Holder, which publishes its own `have`
MirrorHave ==
    /\ peerPub # <<>>
    /\ LET m == Head(peerPub)
       IN  /\ data' = HolderSet(data, m.satellite, m.timecode, <<m.elevation, LazyRef>>)
           /\ pubSent' = pubSent \cup {HaveMsg(m.satellite, m.timecode, m.elevation)}
    /\ peerPub' = Tail(peerPub)
    /\ mgData' = None
    /\ UNCHANGED <<peerData, mgLock, mgWire, mgPc, mgLeft, mgRep, mgRet, mgOut, mgSent>>
    /\ UNCHANGED outsideMirror

\* A thread answers a client's scanline request for the mirrored key:
\* RequestManager.scanline takes the payload from the Holder, and send() then
\* turns the reply into text twice (once for the log, once for the socket),
\* which calls get_data() of a lazy reference each time.
MirrorRequestRecv(t) ==
    /\ mgPc[t] = "idle"
    /\ LET r == scanline(MirrorRequest, data).reply
       IN  IF r.type = "scanline" /\ r.data = LazyRef
           THEN /\ mgPc' = [mgPc EXCEPT ![t] = "check"]
                /\ mgLeft' = [mgLeft EXCEPT ![t] = 2]
                /\ mgOut' = mgOut
           ELSE /\ mgPc' = [mgPc EXCEPT ![t] = "done"]
                /\ mgLeft' = mgLeft
                /\ mgOut' = [mgOut EXCEPT ![t] = r]
    /\ UNCHANGED <<peerData, peerPub, mgData, mgLock, mgWire, mgRep, mgRet, mgSent>>
    /\ UNCHANGED <<data, pubSent, outsideMirror>>

\* where a thread goes when one get_data() call of send() has returned
AfterCall(t) == IF mgLeft[t] = 1 THEN "send" ELSE "check"

\* get_data(): `if self._data is not None: return self._data`
GetDataCheck(t) ==
    /\ mgPc[t] = "check"
    /\ IF mgData # None
       THEN /\ mgRet' = [mgRet EXCEPT ![t] = mgData]
            /\ mgLeft' = [mgLeft EXCEPT ![t] = @ - 1]
            /\ mgPc' = [mgPc EXCEPT ![t] = AfterCall(t)]
       ELSE /\ mgPc' = [mgPc EXCEPT ![t] = "want"]
            /\ UNCHANGED <<mgRet, mgLeft>>
    /\ UNCHANGED <<peerData, peerPub, mgData, mgLock, mgWire, mgRep, mgOut, mgSent>>
    /\ UNCHANGED <<data, pubSent, outsideMirror>>

\* get_data(): `with self._lock: self._socket.send(str(req))`
GetDataSend(t) ==
    /\ mgPc[t] = "want"
    /\ mgLock = Free
    /\ mgWire.kind = "idle"
    /\ mgLock' = t
    /\ mgWire' = [kind |-> "request", msg |-> NoReply]
    /\ mgSent' = mgSent + 1
    /\ mgPc' = [mgPc EXCEPT ![t] = "wait"]
    /\ UNCHANGED <<peerData, peerPub, mgData, mgLeft, mgRep, mgRet, mgOut>>
    /\ UNCHANGED <<data, pubSent, outsideMirror>>

\* the RequestManager of the peer answers the request from its Holder
PeerReply ==
    /\ mgWire.kind = "request"
    /\ mgWire' = [kind |-> "reply", msg |-> scanline(MirrorRequest, peerData).reply]
    /\ UNCHANGED <<peerData, peerPub, mgData, mgLock, mgPc, mgLeft, mgRep, mgRet,
                   mgOut, mgSent>>
    /\ UNCHANGED <<data, pubSent, outsideMirror>>

\* get_data(): `rep = Message.decode(self._socket.recv())`, the lock released
GetDataRecv(t) ==
    /\ mgPc[t] = "wait"
    /\ mgWire.kind = "reply"
    /\ mgRep' = [mgRep EXCEPT ![t] = mgWire.msg]
    /\ mgWire' = WireIdle
    /\ mgLock' = Free
    /\ mgPc' = [mgPc EXCEPT ![t] = "store"]
    /\ UNCHANGED <<peerData, peerPub, mgData, mgLeft, mgRet, mgOut, mgSent>>
    /\ UNCHANGED <<data, pubSent, outsideMirror>>

\* get_data(): `self._data = rep.data; return self._data`
GetDataStore(t) ==
    /\ mgPc[t] = "store"
    /\ mgData' = RepData(mgRep[t])
    /\ mgRet' = [mgRet EXCEPT ![t] = RepData(mgRep[t])]
    /\ mgLeft' = [mgLeft EXCEPT ![t] = @ - 1]
    /\ mgPc' = [mgPc EXCEPT ![t] = AfterCall(t)]
    /\ UNCHANGED <<peerData, peerPub, mgLock, mgWire, mgRep, mgOut, mgSent>>
    /\ UNCHANGED <<data, pubSent, outsideMirror>>

\* send(): the `scanline` reply the Holder lookup produced goes out with the
\* bytes get_data() returned
MirrorReplySend(t) ==
    /\ mgPc[t] = "send"
    /\ mgOut' = [mgOut EXCEPT ![t] = Reply("scanline", mgRet[t])]
    /\ mgPc' = [mgPc EXCEPT ![t] = "done"]
    /\ UNCHANGED <<peerData, peerPub, mgData, mgLock, mgWire, mgLeft, mgRep, mgRet,
                   mgSent>>
    /\ UNCHANGED <<data, pubSent, outsideMirror>>

InitMirror ==
    /\ peerData = EmptyMap
    /\ peerPub = <<>>
    /\ mgData = None
    /\ mgLock = Free
    /\ mgWire = WireIdle
    /\ mgPc = [t \in Threads |-> "idle"]
    /\ mgLeft = [t \in Threads |-> 0]
    /\ mgRep = [t \in Threads |-> NoReply]
    /\ mgRet = [t \in Threads |-> None]
    /\ mgOut = [t \in Threads |-> NoReply]
    /\ mgSent = 0

NextMirror ==
    \/ \E v \in Vals : PeerAdd(v)
    \/ PeerEvict
    \/ MirrorHave
    \/ \E t \in Threads : MirrorRequestRecv(t)
    \/ \E t \in Threads : GetDataCheck(t)
    \/ \E t \in Threads : GetDataSend(t)
    \/ PeerReply
    \/ \E t \in Threads : GetDataRecv(t)
    \/ \E t \in Threads : GetDataStore(t)
    \/ \E t \in Threads : MirrorReplySend(t)

\* -------------------------------------------------------------- Cleaner

\* the additions another thread makes while the Cleaner runs
MaxAdds == 2
\* the half hours the clock advances in a run
MaxTicks == 3

\* Cleaner._delay, in hours (serve: Cleaner(holder, 1))
Delay == 1
MsPerHour == 3600000
\* the clock advances in steps of half an hour
TickMs == 1800000

\* datetime.utcnow() when the Cleaner starts: 01:00 of day 180
CleanStartTime == <<180, MsPerHour>>

\* the entries that are added: midnight and 00:30 of day 180
CleanKeys == Sats \X {<<180, 0>>, <<180, TickMs>>}

\* the lock holder ids of the thread that adds and of the Cleaner
WatcherThread == NumThreads + 1
CleanerThread == NumThreads + 2

\* now - timedelta(hours=h)
MinusHours(now, h) ==
    IF now[2] >= h * MsPerHour THEN <<now[1], now[2] - h * MsPerHour>>
    ELSE <<now[1] - 1, now[2] + MsPerDay - h * MsPerHour>>

\* the mutant of Old: the retention is forgotten
OldNoDelay(key, now) == Later(now, key)

\* clean(): key < datetime.utcnow() - timedelta(hours=self._delay)
Old(key, now) == Later(MinusHours(now, Delay), key)

\* sorted(satlines): the keys of a satellite's map, oldest first
RECURSIVE Sorted(_)
Sorted(S) ==
    IF S = {} THEN <<>>
    ELSE LET first == CHOOSE x \in S : \A y \in S : ~Later(x, y)
         IN  <<first>> \o Sorted(S \ {first})

\* the orders self._data.keys() can list the satellites in
RECURSIVE Orders(_)
Orders(S) ==
    IF S = {} THEN {<<>>}
    ELSE UNION {{<<x>> \o q : q \in Orders(S \ {x})} : x \in S}

\* Holder.add by the FileWatcher or the MirrorWatcher: the lock is taken
AdderLock(k, v) ==
    /\ adPc = "idle"
    /\ adCount < MaxAdds
    /\ holderLock = Free
    /\ holderLock' = WatcherThread
    /\ adArg' = <<k, v>>
    /\ adCount' = adCount + 1
    /\ adPc' = "locked"
    /\ UNCHANGED <<data, pubSent, clPc, clSats, clSat, clKeys, clNow, clExc, clRemoved>>
    /\ UNCHANGED outsideClean

\* Holder.add: the entry is written, the lock released, the `have` published
AdderWrite ==
    /\ adPc = "locked"
    /\ data' = HolderSet(data, adArg[1][1], adArg[1][2], adArg[2])
    /\ holderLock' = Free
    /\ pubSent' = pubSent \cup {HaveMsg(adArg[1][1], adArg[1][2], adArg[2][1])}
    /\ adPc' = "idle"
    /\ adArg' = <<>>
    /\ UNCHANGED <<adCount, clPc, clSats, clSat, clKeys, clNow, clExc, clRemoved>>
    /\ UNCHANGED outsideClean

\* time passes
Tick ==
    /\ clNow[2] < CleanStartTime[2] + MaxTicks * TickMs
    /\ clNow' = <<clNow[1], clNow[2] + TickMs>>
    /\ UNCHANGED <<data, holderLock, pubSent, adPc, adArg, adCount, clPc, clSats,
                   clSat, clKeys, clExc, clRemoved>>
    /\ UNCHANGED outsideClean

\* run(): the wait is over and clean() starts: self._holder.sats(), which
\* lists the satellites without taking the lock
CleanSats ==
    /\ clPc = "wait"
    /\ \E order \in Orders(DOMAIN data) : clSats' = order
    /\ clPc' = "sats"
    /\ UNCHANGED <<data, holderLock, pubSent, adPc, adArg, adCount, clSat, clKeys,
                   clNow, clExc, clRemoved>>
    /\ UNCHANGED outsideClean

\* clean(): the next satellite: self._holder.get_sat(sat) and sorted() of
\* its keys, read without taking the lock; after the last one, run() waits
CleanGetSat ==
    /\ clPc = "sats"
    /\ IF clSats = <<>>
       THEN /\ clPc' = "wait"
            /\ UNCHANGED <<clSats, clSat, clKeys>>
       ELSE /\ clSat' = Head(clSats)
            /\ clKeys' = Sorted(DOMAIN data[Head(clSats)])
            /\ clSats' = Tail(clSats)
            /\ clPc' = "keys"
    /\ UNCHANGED <<data, holderLock, pubSent, adPc, adArg, adCount, clNow, clExc,
                   clRemoved>>
    /\ UNCHANGED outsideClean

\* clean(): the next key of the sorted list is compared with the clock
CleanKey ==
    /\ clPc = "keys"
    /\ IF clKeys = <<>>
       THEN /\ clPc' = "sats"
            /\ UNCHANGED clKeys
       ELSE IF Old(Head(clKeys), clNow)
       THEN /\ clPc' = "delete"
            /\ UNCHANGED clKeys
       ELSE /\ clPc' = "keys"
            /\ clKeys' = Tail(clKeys)
    /\ UNCHANGED <<data, holderLock, pubSent, adPc, adArg, adCount, clSats, clSat,
                   clNow, clExc, clRemoved>>
    /\ UNCHANGED outsideClean

\* clean(): self._holder.delete(sat, key), under the lock; a KeyError ends
\* the thread
CleanDelete ==
    /\ clPc = "delete"
    /\ holderLock = Free
    /\ LET r == HolderDel(data, clSat, Head(clKeys))
       IN  IF r.exc # None
           THEN /\ clPc' = "ended"
                /\ clExc' = r.exc
                /\ UNCHANGED <<data, clKeys, clRemoved>>
           ELSE /\ clPc' = "keys"
                /\ data' = r.data
                /\ clKeys' = Tail(clKeys)
                /\ clRemoved' = clRemoved \cup {<<clSat, Head(clKeys)>>}
                /\ UNCHANGED clExc
    /\ UNCHANGED <<holderLock, pubSent, adPc, adArg, adCount, clSats, clSat, clNow>>
    /\ UNCHANGED outsideClean

\* a step of the Cleaner thread
CleanerStep == CleanSats \/ CleanGetSat \/ CleanKey \/ CleanDelete

InitClean ==
    /\ clPc = "wait"
    /\ clSats = <<>>
    /\ clSat = None
    /\ clKeys = <<>>
    /\ clNow = CleanStartTime
    /\ clExc = None
    /\ clRemoved = {}
    /\ adPc = "idle"
    /\ adArg = <<>>
    /\ adCount = 0

NextClean ==
    \/ \E k \in CleanKeys, v \in {<<10, "bytesA">>} : AdderLock(k, v)
    \/ AdderWrite
    \/ Tick
    \/ CleanSats
    \/ CleanGetSat
    \/ CleanKey
    \/ CleanDelete

\* ------------------------------------------- the timecode of a frame

\* the four timecode words of (day, msecs): the day, then the 7 high, the
\* 10 middle and the 10 low bits of msecs
Encode(day, msecs) ==
    <<day, (msecs \div 1048576) % 128, (msecs \div 1024) % 1024, msecs % 1024>>

\* the day words and millisecond counts the timecode is tried on
TcDays == {2, 3, 360, 361, 729, 730, 1000, 1200}
TcMsecs == {0, 1023, 1024, 1048575, 1048576, 43200000, 86399999}

\* timecode words with bits set above the 7 and 10 bits that are read
TcWords ==
    {Encode(d, m) : d \in TcDays, m \in TcMsecs}
        \cup {<<360, 128 + 41, 1024 + 204, 2048 + 5>>,
               <<65535, 65535, 65535, 65535>>}

\* datetime.utcnow() at the call: noon of day 201, or January 10 at 00:00
TcNows == {Now, <<DaysInPrevYear + 9, 0>>}

NoTc == [td |-> [days |-> 0, milliseconds |-> -1], read |-> NoRead]

\* a valid NOAA 15 frame that carries the timecode words
TcFrame(words) == Frame(hrpt_sync_start, 56, words, hrpt_sync, "image T")

\* HRPT.timecode is applied to the words, and HRPT.read to a buffer of one
\* frame that carries them
TimecodeRead ==
    /\ tcOut = NoTc
    /\ tcOut' = [td |-> timecode(tcWords),
                 read |-> read([frames |-> <<TcFrame(tcWords)>>, rem |-> 0], tcNow, 10)]
    /\ UNCHANGED <<tcWords, tcNow>>
    /\ UNCHANGED outsideTimecode

InitTimecode ==
    /\ tcWords = <<0, 0, 0, 0>>
    /\ tcNow = Now
    /\ tcOut = NoTc

NextTimecode == TimecodeRead

\* ------------------------------------- serve: start and stop of the parts

ZMQError == "ZMQError"
UnboundLocalError == "UnboundLocalError"

\* the threads with a run loop, and the objects that own a socket
Tasks == {"Heart", "Cleaner", "MirrorWatcher", "RequestManager"}
EventTasks == {"Heart", "Cleaner"}
SocketOwners == {"Publisher", "MirrorWatcher", "RequestManager"}
Stoppable == Tasks \cup {"Publisher", "Watcher"}

\* the local variable of serve that holds each part
LocalOf ==
    [c \in Stoppable |->
        CASE c = "Publisher" -> "pub"
          [] c = "Heart" -> "heart"
          [] c = "Cleaner" -> "cleaner"
          [] c = "Watcher" -> "watcher"
          [] c = "MirrorWatcher" -> "mirror_watcher"
          [] OTHER -> "reqman"]
Locals == {LocalOf[c] : c \in Stoppable}

\* the try block of serve, statement by statement, and its finally clause
FinallyOrder == <<"RequestManager", "MirrorWatcher", "Watcher", "Cleaner", "Heart",
                  "Publisher">>

SetIf(f, c, v) == IF c \in DOMAIN f THEN [f EXCEPT ![c] = v] ELSE f

\* What a call of stop() on part c does. Heart and Cleaner clear the loop
\* flag and set the event. MirrorWatcher and RequestManager clear the flag,
\* then set LINGER on their socket and close it; the Publisher does the last
\* two. setsockopt on a socket that is closed already raises ZMQError.
StopBody(c) ==
    /\ stopCalls' = [stopCalls EXCEPT ![c] = @ + 1]
    /\ loopFlag' = SetIf(loopFlag, c, FALSE)
    /\ eventSet' = SetIf(eventSet, c, TRUE)
    /\ IF c \in SocketOwners /\ ~sockOpen[c]
       THEN /\ stopExc' = [stopExc EXCEPT ![c] = ZMQError]
            /\ UNCHANGED sockOpen
       ELSE /\ stopExc' = [stopExc EXCEPT ![c] = None]
            /\ sockOpen' = SetIf(sockOpen, c, FALSE)

\* a part is constructed and, if it is a thread, started
StartBody(c) ==
    /\ started' = Append(started, c)
    /\ locals' = SetIf(locals, IF c \in Stoppable THEN LocalOf[c] ELSE "none", "object")
    /\ sockOpen' = SetIf(sockOpen, c, TRUE)
    /\ taskPc' = SetIf(taskPc, c, "test")

\* serve: the configuration is read
ServeConfig ==
    /\ servePc = "config"
    /\ servePc' = "pub"
    /\ UNCHANGED <<finallyAt, locals, started, stopped, serveExc, loopFlag, eventSet, sockOpen,
                   taskPc, taskExc, hbAfterStop, hbAfterClose, stopCalls, stopExc>>
    /\ UNCHANGED outsideServe

\* serve: Publisher, Heart, Holder, Cleaner and RequestManager, in this order
ServeStart(c, next) ==
    /\ servePc = next[1]
    /\ servePc' = next[2]
    /\ StartBody(c)
    /\ UNCHANGED <<finallyAt, stopped, serveExc, loopFlag, eventSet, taskExc, hbAfterStop,
                   hbAfterClose, stopCalls, stopExc>>
    /\ UNCHANGED outsideServe

\* serve: `watcher = None`, and a FileWatcher if the data directory exists;
\* `mirror_watcher = None`, and a MirrorWatcher if a mirror is configured
ServeOptional(c, next, present) ==
    /\ servePc = next[1]
    /\ servePc' = next[2]
    /\ IF present
       THEN StartBody(c)
       ELSE /\ locals' = [locals EXCEPT ![LocalOf[c]] = "None"]
            /\ UNCHANGED <<started, sockOpen, taskPc>>
    /\ UNCHANGED <<finallyAt, stopped, serveExc, loopFlag, eventSet, taskExc, hbAfterStop,
                   hbAfterClose, stopCalls, stopExc>>
    /\ UNCHANGED outsideServe

\* serve: a statement of the try block raises (an option is missing, a port
\* is taken) or the sleep is interrupted: `except:` logs it and the finally
\* clause runs
ServeFatal ==
    /\ servePc \in {"config", "pub", "heart", "holder", "cleaner", "watcher",
                  "mirror", "reqman", "sleep"}
    /\ servePc' = "finally"
    /\ finallyAt' = 1
    /\ UNCHANGED <<locals, started, stopped, serveExc, loopFlag, eventSet, sockOpen,
                   taskPc, taskExc, hbAfterStop, hbAfterClose, stopCalls, stopExc>>
    /\ UNCHANGED outsideServe

\* serve: the next stop() of the finally clause. A local that was never
\* assigned raises UnboundLocalError, and so ends the clause; so does a
\* stop() that raises.
ServeFinally ==
    /\ servePc = "finally"
    /\ IF finallyAt > Len(FinallyOrder)
       THEN /\ servePc' = "done"
            /\ UNCHANGED <<finallyAt, stopped, serveExc, loopFlag, eventSet, sockOpen,
                           stopCalls, stopExc>>
       ELSE LET c == FinallyOrder[finallyAt]
            IN  IF locals[LocalOf[c]] = "unbound"
                THEN /\ servePc' = "raised"
                     /\ serveExc' = UnboundLocalError
                     /\ UNCHANGED <<finallyAt, stopped, loopFlag, eventSet, sockOpen,
                                    stopCalls, stopExc>>
                ELSE IF locals[LocalOf[c]] = "None"
                THEN /\ finallyAt' = finallyAt + 1
                     /\ UNCHANGED <<servePc, stopped, serveExc, loopFlag, eventSet,
                                    sockOpen, stopCalls, stopExc>>
                ELSE /\ StopBody(c)
                     /\ IF c \in SocketOwners /\ ~sockOpen[c]
                        THEN /\ servePc' = "raised"
                             /\ serveExc' = ZMQError
                             /\ UNCHANGED <<finallyAt, stopped>>
                        ELSE /\ finallyAt' = finallyAt + 1
                             /\ stopped' = Append(stopped, c)
                             /\ UNCHANGED <<servePc, serveExc>>
    /\ UNCHANGED <<locals, started, taskPc, taskExc, hbAfterStop, hbAfterClose>>
    /\ UNCHANGED outsideServe

\* run(): `while self._loop`
TaskTest(c) ==
    /\ taskPc[c] = "test"
    /\ taskPc' = [taskPc EXCEPT ![c] = IF loopFlag[c] THEN "work" ELSE "ended"]
    /\ UNCHANGED <<servePc, finallyAt, locals, started, stopped, serveExc, loopFlag,
                   eventSet, sockOpen, taskExc, hbAfterStop, hbAfterClose, stopCalls,
                   stopExc>>
    /\ UNCHANGED outsideServe

\* Heart.run: self._pub.send(msg); the send on a closed socket raises
HeartSend ==
    /\ taskPc["Heart"] = "work"
    /\ hbAfterStop' = (hbAfterStop \/ stopCalls["Heart"] > 0)
    /\ hbAfterClose' = (hbAfterClose \/ ~sockOpen["Publisher"])
    /\ IF sockOpen["Publisher"]
       THEN /\ taskPc' = [taskPc EXCEPT !["Heart"] = "wait"]
            /\ UNCHANGED taskExc
       ELSE /\ taskPc' = [taskPc EXCEPT !["Heart"] = "ended"]
            /\ taskExc' = [taskExc EXCEPT !["Heart"] = ZMQError]
    /\ UNCHANGED <<servePc, finallyAt, locals, started, stopped, serveExc, loopFlag,
                   eventSet, sockOpen, stopCalls, stopExc>>
    /\ UNCHANGED outsideServe

\* Cleaner.run: self.clean()
CleanerSweep ==
    /\ taskPc["Cleaner"] = "work"
    /\ taskPc' = [taskPc EXCEPT !["Cleaner"] = "wait"]
    /\ UNCHANGED <<servePc, finallyAt, locals, started, stopped, serveExc, loopFlag,
                   eventSet, sockOpen, taskExc, hbAfterStop, hbAfterClose, stopCalls,
                   stopExc>>
    /\ UNCHANGED outsideServe

\* Heart.run, Cleaner.run: self._event.wait(interval) returns, because the
\* event is set or because the interval is over
EventWake(c) ==
    /\ taskPc[c] = "wait"
    /\ taskPc' = [taskPc EXCEPT ![c] = "test"]
    /\ UNCHANGED <<servePc, finallyAt, locals, started, stopped, serveExc, loopFlag,
                   eventSet, sockOpen, taskExc, hbAfterStop, hbAfterClose, stopCalls,
                   stopExc>>
    /\ UNCHANGED outsideServe

\* RequestManager.run: the poll of at most 2 seconds and the request it may
\* bring; on a closed socket the poll raises
ReqPoll ==
    /\ taskPc["RequestManager"] = "work"
    /\ IF sockOpen["RequestManager"]
       THEN /\ taskPc' = [taskPc EXCEPT !["RequestManager"] = "test"]
            /\ UNCHANGED taskExc
       ELSE /\ taskPc' = [taskPc EXCEPT !["RequestManager"] = "ended"]
            /\ taskExc' = [taskExc EXCEPT !["RequestManager"] = ZMQError]
    /\ UNCHANGED <<servePc, finallyAt, locals, started, stopped, serveExc, loopFlag,
                   eventSet, sockOpen, hbAfterStop, hbAfterClose, stopCalls, stopExc>>
    /\ UNCHANGED outsideServe

\* MirrorWatcher.run: self._subsocket.recv() is called; it has no timeout.
\* On a closed socket the call raises.
MirrorRecvCall ==
    /\ taskPc["MirrorWatcher"] = "work"
    /\ IF sockOpen["MirrorWatcher"]
       THEN /\ taskPc' = [taskPc EXCEPT !["MirrorWatcher"] = "blocked"]
            /\ UNCHANGED taskExc
       ELSE /\ taskPc' = [taskPc EXCEPT !["MirrorWatcher"] = "ended"]
            /\ taskExc' = [taskExc EXCEPT !["MirrorWatcher"] = ZMQError]
    /\ UNCHANGED <<servePc, finallyAt, locals, started, stopped, serveExc, loopFlag,
                   eventSet, sockOpen, hbAfterStop, hbAfterClose, stopCalls, stopExc>>
    /\ UNCHANGED outsideServe

\* MirrorWatcher.run: the peer publishes a message, recv() returns it and it
\* is handled
MirrorMessage ==
    /\ taskPc["MirrorWatcher"] = "blocked"
    /\ sockOpen["MirrorWatcher"]
    /\ taskPc' = [taskPc EXCEPT !["MirrorWatcher"] = "test"]
    /\ UNCHANGED <<servePc, finallyAt, locals, started, stopped, serveExc, loopFlag,
                   eventSet, sockOpen, taskExc, hbAfterStop, hbAfterClose, stopCalls,
                   stopExc>>
    /\ UNCHANGED outsideServe

\* MirrorWatcher.run: the socket was closed by another thread while recv()
\* was blocked on it. Sockets are not to be shared between threads: the
\* recv() may raise, as here, or stay blocked, when this step is not taken.
MirrorRecvAbort ==
    /\ taskPc["MirrorWatcher"] = "blocked"
    /\ ~sockOpen["MirrorWatcher"]
    /\ taskPc' = [taskPc EXCEPT !["MirrorWatcher"] = "ended"]
    /\ taskExc' = [taskExc EXCEPT !["MirrorWatcher"] = ZMQError]
    /\ UNCHANGED <<servePc, finallyAt, locals, started, stopped, serveExc, loopFlag,
                   eventSet, sockOpen, hbAfterStop, hbAfterClose, stopCalls, stopExc>>
    /\ UNCHANGED outsideServe

\* the steps thread c takes on its own
TaskStep(c) ==
    \/ TaskTest(c)
    \/ c = "Heart" /\ HeartSend
    \/ c = "Cleaner" /\ CleanerSweep
    \/ c \in EventTasks /\ EventWake(c)
    \/ c = "RequestManager" /\ ReqPoll
    \/ c = "MirrorWatcher" /\ MirrorRecvCall

\* the calls of stop() made on one part
MaxStops == 2

\* stop() of part c is called, by whoever holds the object
StopCall(c) ==
    /\ servePc = "sleep"
    /\ stopCalls[c] < MaxStops
    /\ StopBody(c)
    /\ UNCHANGED <<servePc, finallyAt, locals, started, stopped, serveExc, taskPc,
                   taskExc, hbAfterStop, hbAfterClose>>
    /\ UNCHANGED outsideServe

InitServe ==
    /\ servePc = "config"
    /\ finallyAt = 0
    /\ locals = [x \in Locals |-> "unbound"]
    /\ started = <<>>
    /\ stopped = <<>>
    /\ serveExc = None
    /\ loopFlag = [c \in Tasks |-> TRUE]
    /\ eventSet = [c \in EventTasks |-> FALSE]
    /\ sockOpen = [c \in SocketOwners |-> FALSE]
    /\ taskPc = [c \in Tasks |-> "new"]
    /\ taskExc = [c \in Tasks |-> None]
    /\ hbAfterStop = FALSE
    /\ hbAfterClose = FALSE
    /\ stopCalls = [c \in Stoppable |-> 0]
    /\ stopExc = [c \in Stoppable |-> None]

\* serve has started every part, the FileWatcher and the MirrorWatcher
\* included, and sleeps
InitStarted ==
    /\ servePc = "sleep"
    /\ finallyAt = 0
    /\ locals = [x \in Locals |-> "object"]
    /\ started = <<"Publisher", "Heart", "Holder", "Cleaner", "Watcher",
                   "MirrorWatcher", "RequestManager">>
    /\ stopped = <<>>
    /\ serveExc = None
    /\ loopFlag = [c \in Tasks |-> TRUE]
    /\ eventSet = [c \in EventTasks |-> FALSE]
    /\ sockOpen = [c \in SocketOwners |-> TRUE]
    /\ taskPc = [c \in Tasks |-> "test"]
    /\ taskExc = [c \in Tasks |-> None]
    /\ hbAfterStop = FALSE
    /\ hbAfterClose = FALSE
    /\ stopCalls = [c \in Stoppable |-> 0]
    /\ stopExc = [c \in Stoppable |-> None]

NextStop ==
    \/ \E c \in Stoppable \ {"Watcher"} : StopCall(c)
    \/ \E c \in Tasks : TaskTest(c)
    \/ HeartSend
    \/ CleanerSweep
    \/ \E c \in EventTasks : EventWake(c)
    \/ ReqPoll
    \/ MirrorRecvCall
    \/ MirrorMessage
    \/ MirrorRecvAbort

NextServe ==
    \/ ServeConfig
    \/ ServeStart("Publisher", <<"pub", "heart">>)
    \/ ServeStart("Heart", <<"heart", "holder">>)
    \/ ServeStart("Holder", <<"holder", "cleaner">>)
    \/ ServeStart("Cleaner", <<"cleaner", "watcher">>)
    \/ \E present \in BOOLEAN : ServeOptional("Watcher", <<"watcher", "mirror">>, present)
    \/ \E present \in BOOLEAN :
           ServeOptional("MirrorWatcher", <<"mirror", "reqman">>, present)
    \/ ServeStart("RequestManager", <<"reqman", "sleep">>)
    \/ ServeFatal
    \/ ServeFinally
    \/ \E c \in Tasks : TaskTest(c)
    \/ HeartSend
    \/ CleanerSweep
    \/ \E c \in EventTasks : EventWake(c)
    \/ ReqPoll
    \/ MirrorRecvCall
    \/ MirrorMessage
    \/ MirrorRecvAbort

\* ------------------------------- two servers that mirror each other

\* the two servers; the `mirror` option of each names the other (serve)
Peers == {"A", "B"}
MirrorOf(p) == IF p = "A" THEN "B" ELSE "A"

\* the `have` announcements of a run, of the two servers together
MaxHaves == 5
\* the heartbeats of a server in a run
MaxBeats == 1

\* Holder.have of server p: the origin is its own publisher address
PeerHaveMsg(p, sat, key, elevation) ==
    [type |-> "have", satellite |-> sat, timecode |-> key,
     elevation |-> elevation, origin |-> p]

\* Publisher.send of server p: the message goes to the subscriber socket of
\* the MirrorWatcher of the other server
PeerPublish(sub, p, m) ==
    [sub EXCEPT ![MirrorOf(p)] = Append(sub[MirrorOf(p)], m)]

\* The FileWatcher of server p reads a scanline: Holder.add stores the bytes
\* and publishes the `have`
TwoIngest(p, k, v) ==
    /\ twIngest = NoVal
    /\ twData' = [twData EXCEPT ![p] = HolderSet(twData[p], k[1], k[2], v)]
    /\ twSub' = PeerPublish(twSub, p, PeerHaveMsg(p, k[1], k[2], v[1]))
    /\ twHaves' = [twHaves EXCEPT ![p] = twHaves[p] + 1]
    /\ twIngest' = <<p, k, v>>
    /\ UNCHANGED twBeats
    /\ UNCHANGED outsideTwo

\* MirrorWatcher.run of server p: a `have` of the other server arrives; a
\* _MirrorGetter is added under its satellite and timecode, whatever the
\* origin of the message and whatever the Holder has there, and Holder.add
\* publishes the `have` of server p
TwoMirrorHave(p) ==
    /\ twSub[p] # <<>>
    /\ Head(twSub[p]).type = "have"
    /\ twHaves["A"] + twHaves["B"] < MaxHaves
    /\ LET m == Head(twSub[p])
       IN  /\ twData' = [twData EXCEPT ![p] =
                  HolderSet(twData[p], m.satellite, m.timecode,
                            <<m.elevation, LazyRef>>)]
           /\ twSub' = PeerPublish([twSub EXCEPT ![p] = Tail(twSub[p])], p,
                  PeerHaveMsg(p, m.satellite, m.timecode, m.elevation))
    /\ twHaves' = [twHaves EXCEPT ![p] = twHaves[p] + 1]
    /\ UNCHANGED <<twBeats, twIngest>>
    /\ UNCHANGED outsideTwo

\* Heart.run of server p publishes a heartbeat
TwoHeartbeat(p) ==
    /\ twBeats[p] < MaxBeats
    /\ twBeats' = [twBeats EXCEPT ![p] = twBeats[p] + 1]
    /\ twSub' = PeerPublish(twSub, p, [type |-> "heartbeat", origin |-> p])
    /\ UNCHANGED <<twData, twHaves, twIngest>>
    /\ UNCHANGED outsideTwo

\* MirrorWatcher.run of server p: a heartbeat arrives and is logged
TwoMirrorBeat(p) ==
    /\ twSub[p] # <<>>
    /\ Head(twSub[p]).type = "heartbeat"
    /\ twSub' = [twSub EXCEPT ![p] = Tail(twSub[p])]
    /\ UNCHANGED <<twData, twHaves, twBeats, twIngest>>
    /\ UNCHANGED outsideTwo

InitTwo ==
    /\ twData = [p \in Peers |-> EmptyMap]
    /\ twSub = [p \in Peers |-> <<>>]
    /\ twHaves = [p \in Peers |-> 0]
    /\ twBeats = [p \in Peers |-> 0]
    /\ twIngest = NoVal

NextTwo ==
    \/ \E p \in Peers, k \in Keys, v \in Vals : TwoIngest(p, k, v)
    \/ \E p \in Peers : TwoMirrorHave(p)
    \/ \E p \in Peers : TwoHeartbeat(p)
    \/ \E p \in Peers : TwoMirrorBeat(p)

Init ==
    /\ InitHolder
    /\ InitThreads
    /\ InitReq
    /\ InitHRPT
    /\ InitWatch
    /\ InitMirror
    /\ InitTwo
    /\ InitServe
    /\ InitTimecode
    /\ InitClean

\* read() is tried on every buffer of Buffers
InitBuffers ==
    /\ InitHolder
    /\ InitThreads
    /\ InitReq
    /\ buf \in Buffers
    /\ readOut = NoRead
    /\ InitWatch
    /\ InitMirror
    /\ InitTwo
    /\ InitServe
    /\ InitTimecode
    /\ InitClean

\* the timecode is decoded for every tuple of words of TcWords, at every
\* clock of TcNows
InitTimecodes ==
    /\ InitHolder
    /\ InitThreads
    /\ InitReq
    /\ InitHRPT
    /\ InitWatch
    /\ InitMirror
    /\ InitTwo
    /\ InitServe
    /\ InitClean
    /\ tcWords \in TcWords
    /\ tcNow \in TcNows
    /\ tcOut = NoTc

\* every part is running when its stop() is called
InitAllStarted ==
    /\ InitHolder
    /\ InitThreads
    /\ InitReq
    /\ InitHRPT
    /\ InitWatch
    /\ InitMirror
    /\ InitTwo
    /\ InitClean
    /\ InitTimecode
    /\ InitStarted

NextHolder ==
    \/ \E t \in Threads, k \in Keys, v \in Vals : AddCall(t, k, v)
    \/ \E t \in Threads : AddWrite(t)
    \/ \E t \in Threads : AddHave(t)
    \/ \E t \in Threads, k \in Keys : GetCall(t, k)
    \/ \E t \in Threads : GetRead(t)
    \/ \E t \in Threads, k \in Keys : DelCall(t, k)
    \/ \E t \in Threads : DelRemove(t)
    \/ \E t \in Threads : Return(t)

vars == <<holderVars, threadVars, ghostVars, rmVars, hrptVars, fwVars,
          mirrorVars, cleanVars, tcVars, serveVars, twVars>>

SpecHolder == Init /\ [][NextHolder]_vars

SpecReq == Init /\ [][NextReq]_vars

SpecHRPT == InitBuffers /\ [][NextHRPT]_vars

SpecWatch == Init /\ [][NextWatch]_vars

SpecMirror == Init /\ [][NextMirror]_vars

\* The threads serve starts keep running; nothing makes serve itself go on,
\* a message of the peer arrive, or a recv() on a closed socket return.
SpecServe == Init /\ [][NextServe]_vars /\ \A c \in Tasks : WF_vars(TaskStep(c))

SpecStop == InitAllStarted /\ [][NextStop]_vars

SpecTimecode == InitTimecodes /\ [][NextTimecode]_vars

SpecTwo == Init /\ [][NextTwo]_vars

\* The Cleaner thread keeps running, and a thread inside Holder.add leaves it.
SpecClean ==
    Init /\ [][NextClean]_vars /\ WF_vars(CleanerStep) /\ WF_vars(AdderWrite)

\* ------------------------------------------------ claims on the Holder

\* C1: a get(s,t) that runs after an add(s,t,e,d) has returned, with no
\* delete(s,t) and no other add(s,t,..) called since that add was called,
\* returns exactly (e,d); and whatever the interleaving of adds and deletes,
\* every key is either absent or present with the value last added to it.
C1_GetReturnsLastAdd ==
    /\ \A t \in Threads :
          (pc[t] = "get_done" /\ expect[t] # NoVal)
              => ret[t] = [exc |-> None, val |-> expect[t]]
    /\ \A k \in Keys :
          Present(data, k) => HolderGet(data, k[1], k[2]).val = lastAdded[k]

\* a get has returned the value of an add that had returned before it began
C1_Witness ==
    \E t \in Threads :
        /\ pc[t] = "get_done"
        /\ expect[t] # NoVal
        /\ ret[t].val = expect[t]

\* C2: every `have` with origin = self handed to the Publisher names a key
\* that get_data finds, unless a delete removed the entry after its insertion;
\* and the thread that is about to publish does not hold the Holder lock.
C2_HaveAfterInsert ==
    /\ \A m \in pubSent :
          m.origin = Origin =>
              \/ HolderGetData(data, m.satellite, m.timecode).exc = None
              \/ removed[<<m.satellite, m.timecode>>]
    /\ \A t \in Threads : pc[t] = "add_have" => holderLock # t

\* a `have` has been published and get_data finds its entry
C2_Witness ==
    \E m \in pubSent :
        /\ m.origin = Origin
        /\ HolderGetData(data, m.satellite, m.timecode).exc = None
        /\ \A t \in Threads : pc[t] = "idle"

\* C10: Holder.delete(sat, ts) on an absent key raises no error and leaves
\* the Holder's contents unchanged.
C10_DeleteAbsentSilent ==
    [][\A t \in Threads :
          (/\ pc[t] = "del_in"
           /\ pc'[t] = "del_done"
           /\ ~Present(data, <<arg[t].sat, arg[t].key>>))
              => (ret'[t].exc = None /\ data' = data)]_vars

\* ----------------------------------------- claims on the RequestManager

\* C3: for every request run() receives, whatever its type or content,
\* exactly one reply is sent, and it is sent before the next request is
\* received: while a reply is pending one request more than replies has been
\* received, and otherwise (polling, or the loop over) as many.
C3_OneReplyPerRequest ==
    /\ rmPc = "send" => nRecv = nSent + 1
    /\ rmPc \in {"poll", "dead"} => nSent = nRecv

\* the request is a `request` for a scanline with all its fields
IsScanlineRequest(m) ==
    /\ m.type = "request"
    /\ m.hasData
    /\ {"type", "satellite", "utctime"} \subseteq DOMAIN m.data
    /\ m.data.type = "scanline"
    /\ Len(m.data.utctime) = 3

\* C4: the reply is determined by the request: ping gives pong with the
\* station; a scanline request gives scanline with the payload stored under
\* exactly the requested (satellite, utctime), or missing when that key is
\* absent; a scanline notice gives ack; any other message type gives unknown,
\* after which run() is polling again; and the reply sent is the one computed.
C4_ReplyByRequest ==
    [][/\ (rmPc = "poll" /\ rmPc' = "send") =>
            /\ rmMsg'.type = "ping" =>
                  rmReply' = [type |-> "pong", data |-> Station]
            /\ IsScanlineRequest(rmMsg') =>
                  LET sat == rmMsg'.data.satellite
                      t == <<rmMsg'.data.utctime[2], rmMsg'.data.utctime[3]>>
                  IN  rmReply' =
                          IF sat \in DOMAIN data /\ t \in DOMAIN data[sat]
                          THEN [type |-> "scanline", data |-> data[sat][t][2]]
                          ELSE [type |-> "missing", data |-> None]
            /\ (/\ rmMsg'.type = "notice"
                /\ rmMsg'.hasData
                /\ "type" \in DOMAIN rmMsg'.data
                /\ rmMsg'.data.type = "scanline") =>
                  rmReply' = [type |-> "ack", data |-> None]
            /\ rmMsg'.type \notin {"ping", "request", "notice"} =>
                  rmReply' = [type |-> "unknown", data |-> None]
       /\ (rmPc = "send" /\ rmPc' # "send") =>
            /\ rmOut' = rmReply
            /\ rmReply.type = "unknown" => rmPc' = "poll"]_vars

\* a second request has been answered, with the scanline it asked for
C4_Witness ==
    /\ rmPc = "poll"
    /\ nSent > 1
    /\ rmOut.type = "scanline"
    /\ rmOut.data \in {v[2] : v \in Vals}

\* C5: when the handling of a request raises an internal error (a request or
\* notice without a "type" field, an unparsable utctime), run() sends an
\* `error` reply, no exception leaves its loop, and it goes on serving: it is
\* about to send the reply, or has sent `error` and is polling again. (The
\* request that cannot be decoded is the case C3 is refuted by.)
C5_ErrorReplyAndContinue ==
    rmExc \notin {None, MessageError} =>
        \/ rmPc = "send"
        \/ rmPc = "poll" /\ rmOut.type = "error"

\* --------------------------------- claims on HRPT.read and the FileWatcher

\* the frame passes the integrity check and carries a known satellite code
ValidFrame(line) == SyncOk(line) /\ SatCode(line) \in DOMAIN satellites

\* C6: for every buffer, whether or not some complete frames fail the sync
\* check, the consumed byte count read() returns is floor(len/22180)*22180;
\* in particular ([], 0) for a buffer shorter than 22180 bytes.
C6_ConsumedAllCompleteFrames ==
    (readOut # NoRead /\ readOut.exc = None) =>
        /\ readOut.consumed = (BufLen(buf) \div 22180) * 22180
        /\ BufLen(buf) < 22180 => (readOut.elts = <<>> /\ readOut.consumed = 0)

\* C7: every tuple read() returns carries as its payload exactly the bytes
\* of the frame its satellite and utctime were decoded from.
C7_PayloadIsOwnFrame ==
    \A n \in 1..Len(readOut.elts) :
        readOut.elts[n].data = buf.frames[readOut.elts[n].line]

\* how many adds the watcher made for frame n of the file
AddsOf(n) == Cardinality({j \in 1..Len(addLog) : addLog[j] = n})

\* C8: once the event of every append has been handled, the FileWatcher has
\* added each valid frame of the file to the Holder exactly once, and no
\* other frame.
C8_EachValidFrameAddedOnce ==
    events = 0 =>
        \A n \in 1..Len(file.frames) :
            AddsOf(n) = IF ValidFrame(file.frames[n]) THEN 1 ELSE 0

\* C9: when a frame of the buffer passes the sync checks with a satellite
\* code that is not in the table, read() raises no error, returns no tuple
\* for that frame and still returns one for every valid frame of the buffer.
C9_UnknownSatelliteSkipped ==
    (/\ readOut # NoRead
     /\ \E n \in 1..Len(buf.frames) :
            SyncOk(buf.frames[n]) /\ SatCode(buf.frames[n]) \notin {7, 3, 13, 15})
        => /\ readOut.exc = None
           /\ \A n \in 1..Len(buf.frames) :
                 ValidFrame(buf.frames[n])
                     <=> \E j \in 1..Len(readOut.elts) : readOut.elts[j].line = n

\* ------------------------------------ claims on the lazy remote reference

\* C11: however the get_data() calls of threads on one lazy reference
\* interleave, at most one request is sent to the peer, and every call that
\* has returned has returned the same bytes.
C11_OneRequestPerReference ==
    /\ mgSent <= 1
    /\ \A t, u \in Threads :
           (mgPc[t] = "done" /\ mgPc[u] = "done" /\ mgOut[t].type = "scanline"
                /\ mgOut[u].type = "scanline")
               => mgOut[t].data = mgOut[u].data

\* C12: a thread whose lazy reference was answered `missing` by the peer
\* answers its client with `missing`, not with a `scanline` reply.
C12_MirrorMissIsMissing ==
    \A t \in Threads :
        (mgPc[t] = "done" /\ mgRep[t].type = "missing") => mgOut[t].type = "missing"

\* -------------------------------------------------- claims on the Cleaner

\* the timestamp of entry k is older than now - retention (one hour)
Expired(k) == Later(MinusHours(clNow, 1), k[2])

\* C13: while the Cleaner runs and another thread adds entries, no sweep
\* removes an entry that is not older than now - retention, no sweep ends
\* the Cleaner thread, and every entry older than now - retention is
\* eventually deleted.
C13_CleanerEvictsOld ==
    /\ [][\A k \in CleanKeys :
              (Present(data, k) /\ ~Present(data', k)) => Expired(k)]_vars
    /\ [](clPc # "ended" /\ clExc = None)
    /\ \A k \in CleanKeys :
           (Present(data, k) /\ Expired(k)) ~> ~Present(data, k)

\* a sweep has deleted an entry and is still going through the keys while
\* another thread is inside Holder.add
C13_Witness ==
    /\ clRemoved # {}
    /\ clPc = "keys"
    /\ adPc = "locked"

\* C19: the Cleaner holds the Holder mutex whenever it reads the map: when
\* it lists the satellites (sats) and when it takes a satellite's map and
\* goes through its keys (get_sat).
C19_CleanerReadsUnderLock ==
    [][((clPc = "wait" /\ clPc' = "sats") \/ (clPc = "sats" /\ clPc' = "keys"))
           => holderLock = CleanerThread]_vars

\* ------------------------------------------------ claims on the timecode

\* C14: every timestamp HRPT.read produces is not later than the clock at
\* the call, whatever the four timecode words are.
C14_NeverInTheFuture ==
    tcOut # NoTc =>
        \A n \in 1..Len(tcOut.read.elts) : ~Later(tcOut.read.elts[n].utctime, tcNow)

\* C15, as stated: for day in [2, 730] and msecs in [0, 86399999], decoding
\* the words of (day, msecs) with HRPT.timecode yields (day, msecs) again.
C15_RoundTripSameDay ==
    \A d \in TcDays \cap (2..730), m \in TcMsecs \cap (0..86399999) :
        (tcOut # NoTc /\ tcWords = Encode(d, m))
            => <<tcOut.td.days, tcOut.td.milliseconds>> = <<d, m>>

\* C15, amended: for day in [2, 730] and msecs in [0, 86399999], decoding
\* the words of (day, msecs) with HRPT.timecode yields the timedelta of
\* (day div 2) - 1 days and msecs milliseconds.
C15_RoundTrip ==
    \A d \in TcDays \cap (2..730), m \in TcMsecs \cap (0..86399999) :
        (tcOut # NoTc /\ tcWords = Encode(d, m))
            => tcOut.td = [days |-> (d \div 2) - 1, milliseconds |-> m]

\* the words of an odd day with all three millisecond fields in use have
\* been decoded
C15_Witness ==
    /\ tcOut # NoTc
    /\ tcWords = Encode(361, 86399999)
    /\ tcOut.td.milliseconds > 1048576

\* --------------------------------------- claims on starting and stopping

\* C16: once Heart.stop() has returned the Heart thread calls
\* Publisher.send no more, and it never calls it on the closed socket.
C16_NoHeartbeatAfterStop ==
    /\ ~hbAfterStop
    /\ ~hbAfterClose

\* the order serve starts the parts in
StartOrder ==
    <<"Publisher", "Heart", "Holder", "Cleaner", "Watcher", "MirrorWatcher",
      "RequestManager">>
StartRank(c) == CHOOSE n \in 1..Len(StartOrder) : StartOrder[n] = c
IsStoppable(c) == c \in Stoppable
Reverse(q) == [n \in 1..Len(q) |-> q[Len(q) + 1 - n]]

\* C17: the parts are started in the order of StartOrder, and when serve
\* is over, wherever the fatal condition or the signal came, every part
\* that was started has been stopped, in the reverse of the start order.
C17_StopsAllInReverse ==
    /\ \A i, j \in 1..Len(started) :
           i < j => StartRank(started[i]) < StartRank(started[j])
    /\ servePc \in {"done", "raised"}
           => stopped = Reverse(SelectSeq(started, IsStoppable))

\* C18: a second call of stop() on the Publisher, the Heart, the Cleaner,
\* the MirrorWatcher or the RequestManager raises nothing and leaves the
\* part as the first call left it.
C18_StopIdempotent ==
    [][\A c \in Stoppable \ {"Watcher"} :
           (stopCalls[c] >= 1 /\ stopCalls'[c] = stopCalls[c] + 1)
               => /\ stopExc'[c] = None
                  /\ loopFlag' = loopFlag
                  /\ eventSet' = eventSet
                  /\ sockOpen' = sockOpen]_vars

\* C20: once stop() has been called on a running thread, its run loop
\* ends, also when no further message arrives.
C20_StopEndsLoop ==
    \A c \in Tasks :
        (stopCalls[c] > 0 /\ taskPc[c] # "new") ~> (taskPc[c] = "ended")

\* ------------------------------- claims on two servers mirroring each other

\* C21: with two servers that mirror each other, one local ingest of a
\* scanline makes each server announce that satellite and timestamp at
\* most once (the announcement a MirrorWatcher's add re-publishes is not
\* echoed back), and the Holder of the server that ingested the scanline
\* keeps the bytes it read: they are not replaced by a lazy reference to
\* the other server.
C21_NoEcho ==
    /\ \A p \in Peers : twHaves[p] <= 1
    /\ twIngest # NoVal =>
           HolderGet(twData[twIngest[1]], twIngest[2][1], twIngest[2][2]).val
               = twIngest[3]

====
